---- MODULE Spec2Model ----
(***************************************************************************)
(* Model of the openreview-mcp metadata repository (src/src/introspect.py) *)
(* and of the query tools served over it (src/src/server.py).              *)
(*                                                                         *)
(* A Python str is a sequence of one-character strings, so that lower(),   *)
(* strip(), startswith() and the substring test `in` are computed as       *)
(* Python computes them.  A Python dict is a record whose DOMAIN is its    *)
(* key set, so a missing key (method.get("docstring", "")) is a missing    *)
(* field.  A Python value handed to a tool is a record [type, val], type   *)
(* being type(x).__name__.                                                 *)
(***************************************************************************)
EXTENDS Integers, Sequences, FiniteSets, TLC

VARIABLES classes, tools, op, arg, result, calls, tasks

vars == <<classes, tools, op, arg, result, calls, tasks>>

----------------------------------------------------------------------------
(* Bounds *)

MaxClasses == 2
MaxTools == 1
MaxQueryLen == 2
MaxTime == 2

----------------------------------------------------------------------------
(* Python str operations *)

UPPER == <<"A","B","C","D","E","F","G","H","I","J","K","L","M",
           "N","O","P","Q","R","S","T","U","V","W","X","Y","Z">>

LOWER == <<"a","b","c","d","e","f","g","h","i","j","k","l","m",
           "n","o","p","q","r","s","t","u","v","w","x","y","z">>

LowerChar(c) ==
    IF \E i \in 1..Len(UPPER) : UPPER[i] = c
    THEN LOWER[CHOOSE i \in 1..Len(UPPER) : UPPER[i] = c]
    ELSE c

lower(s) == [i \in 1..Len(s) |-> LowerChar(s[i])]

IsSpace(c) == c \in {" ", "\t", "\n", "\r"}

RECURSIVE lstrip(_)
lstrip(s) == IF s # <<>> /\ IsSpace(Head(s)) THEN lstrip(Tail(s)) ELSE s

RECURSIVE rstrip(_)
rstrip(s) ==
    IF s # <<>> /\ IsSpace(s[Len(s)]) THEN rstrip(SubSeq(s, 1, Len(s) - 1)) ELSE s

\* variant: only leading whitespace is removed
strip_LeftOnly(s) == lstrip(s)

strip(s) == rstrip(lstrip(s))

startswith(s, p) == Len(p) <= Len(s) /\ SubSeq(s, 1, Len(p)) = p

\* Python `needle in hay` for two str
Contains(needle, hay) ==
    \E i \in 0..(Len(hay) - Len(needle)) : SubSeq(hay, i + 1, i + Len(needle)) = needle

\* dict.get(key, default)
Get(d, key, default) == IF key \in DOMAIN d THEN d[key] ELSE default

\* variant: the key is left in place
Pop_Keep(d, key) == d

\* dict.pop(key, None) for its effect on the dict
Pop(d, key) == [k \in (DOMAIN d) \ {key} |-> d[k]]

\* Python values handed to a tool
PyStr(s) == [type |-> "str", val |-> s]
PyInt == [type |-> "int", val |-> <<"7">>]
PyList == [type |-> "list", val |-> <<"[", "]">>]
None == [type |-> "NoneType", val |-> <<"N">>]

\* variant: None is let through the type check
isinstance_str_OrNone(x) == x.type \in {"str", "NoneType"}

isinstance_str(x) == x.type = "str"

\* variant: every str is true, the empty one included
Truthy_AnyStr(x) == x.type = "str"

\* truth value of a str or None argument
Truthy(x) == x.type = "str" /\ x.val # <<>>

----------------------------------------------------------------------------
(* String literals of the catalog *)

OPENREVIEW == <<"o","p","e","n","r","e","v","i","e","w">>
DOT == <<".">>
ModOpenreview == OPENREVIEW
ModApi == OPENREVIEW \o DOT \o <<"a","p","i">>
ModTools == OPENREVIEW \o DOT \o <<"t","o","o","l","s">>
ModVenue == OPENREVIEW \o DOT \o <<"v","e","n","u","e">>

OpenReviewClient == <<"O","p","e","n","R","e","v","i","e","w","C","l","i","e","n","t">>
Client == <<"C","l","i","e","n","t">>
Venue == <<"V","e","n","u","e">>
GroupBuilder == <<"G","r","o","u","p","B","u","i","l","d","e","r">>
Dunder_init == <<"_","_","i","n","i","t","_","_">>

----------------------------------------------------------------------------
(* Catalog contents the literal dataset is drawn from.  Method and tool    *)
(* names are Python identifiers: non-empty, no whitespace.                 *)

M_init == [name |-> Dunder_init, signature |-> <<"(",")">>, docstring |-> <<"A">>]
M_a == [name |-> <<"a">>, signature |-> <<"a","(",")">>, docstring |-> <<"A"," ","a">>]
M_aA == [name |-> <<"a","A">>, signature |-> <<"a","A","(",")">>]
M_priv == [name |-> <<"_","a">>, signature |-> <<"_","a","(",")">>, docstring |-> <<" ">>]
M_A2 == [name |-> <<"A">>, signature |-> <<"A","(","a",")">>, docstring |-> <<"_">>]
M_A == [name |-> <<"A">>, signature |-> <<"A","(",")">>, docstring |-> <<>>]
M_b == [name |-> <<"b">>, signature |-> <<"b","(",")">>, docstring |-> <<"_">>]

MkClass(n, m, ms) == [name |-> n, docstring |-> <<"A">>, module |-> m, methods |-> ms]

ClassPool ==
    { MkClass(OpenReviewClient, ModApi, <<M_init, M_a, M_priv, M_b>>),
      MkClass(OpenReviewClient, ModOpenreview, <<M_aA, M_A2, M_A>>),
      [name |-> OpenReviewClient, docstring |-> <<>>, module |-> ModApi],
      MkClass(Client, ModOpenreview, <<M_init, M_A, M_aA>>) }

T_a == [name |-> <<"a">>, module |-> ModTools,
        signature |-> <<"a","(","c",")">>, function_type |-> "function",
        parameters |-> <<[name |-> <<"c">>, required |-> TRUE]>>]

T_b == [name |-> <<"b">>, docstring |-> <<"a","_","B">>, module |-> ModTools,
        signature |-> <<"b","(",")">>, function_type |-> "function",
        parameters |-> <<>>]

ToolPool == {T_a, T_b}

RECURSIVE SeqsUpTo(_, _)
SeqsUpTo(S, n) ==
    IF n = 0 THEN {<<>>}
    ELSE LET shorter == SeqsUpTo(S, n - 1)
         IN shorter \cup {Append(s, x) : s \in shorter, x \in S}

QueryChars == {"a", "A", "_", " "}

\* the str arguments a caller passes
Strings == SeqsUpTo(QueryChars, MaxQueryLen)

Timestamps == 1..MaxTime

----------------------------------------------------------------------------
(* Metadata repository: src/src/introspect.py *)

\* Where the list literals of the dataset are evaluated.  "call": in the
\* body of the accessor, on every call, so the caller gets a list and dicts
\* that nobody else holds.  "module": once, the accessor handing out the one
\* canonical object.
ClassesLiteralScope_Module == "module"

ClassesLiteralScope == "call"

ToolsLiteralScope == "call"

\* the canonical dataset after the holder of a list that an accessor
\* returned has changed that list into `written`
ClassesAfterWrite(written) ==
    IF ClassesLiteralScope = "call" THEN classes ELSE written

ToolsAfterWrite(written) ==
    IF ToolsLiteralScope = "call" THEN tools ELSE written

get_openreview_classes == classes

get_openreview_tools == tools

\* variant: falls back to the first class when no class has the name
FirstNamed_Fallback(cs, n) ==
    IF \E i \in 1..Len(cs) : cs[i].name = n
    THEN CHOOSE i \in 1..Len(cs) :
            /\ cs[i].name = n
            /\ \A j \in 1..(i - 1) : cs[j].name # n
    ELSE IF cs # <<>> THEN 1 ELSE 0

\* next((c for c in cs if c["name"] == n), None): the index of the first
\* match, 0 for None
FirstNamed(cs, n) ==
    IF \E i \in 1..Len(cs) : cs[i].name = n
    THEN CHOOSE i \in 1..Len(cs) :
            /\ cs[i].name = n
            /\ \A j \in 1..(i - 1) : cs[j].name # n
    ELSE 0

\* variant: skips only the double-underscore methods
ProjectMethods_DunderOnly(client_class, methods, functions) ==
    LET function(method) == [name |-> method.name,
                             docstring |-> Get(method, "docstring", <<>>),
                             module |-> client_class.module \o DOT \o client_class.name,
                             signature |-> method.signature,
                             function_type |-> "method"]
        visited == SelectSeq(methods, LAMBDA method : ~startswith(method.name, <<"_", "_">>))
    IN functions \o [i \in 1..Len(visited) |-> function(visited[i])]

\* variant: the module of a record is the class's module, without the class name
ProjectMethods_ClassModule(client_class, methods, functions) ==
    LET function(method) == [name |-> method.name,
                             docstring |-> Get(method, "docstring", <<>>),
                             module |-> client_class.module,
                             signature |-> method.signature,
                             function_type |-> "method"]
        visited == SelectSeq(methods, LAMBDA method : ~startswith(method.name, <<"_">>))
    IN functions \o [i \in 1..Len(visited) |-> function(visited[i])]

\* the for loop of get_openreview_functions: the methods it does not skip,
\* each projected to a function record and appended in order
ProjectMethods(client_class, methods, functions) ==
    LET function(method) == [name |-> method.name,
                             docstring |-> Get(method, "docstring", <<>>),
                             module |-> client_class.module \o DOT \o client_class.name,
                             signature |-> method.signature,
                             function_type |-> "method"]
        visited == SelectSeq(methods, LAMBDA method : ~startswith(method.name, <<"_">>))
    IN functions \o [i \in 1..Len(visited) |-> function(visited[i])]

get_openreview_functions ==
    LET cs == get_openreview_classes
        k == FirstNamed(cs, OpenReviewClient)
    IN IF k = 0 THEN <<>>
       ELSE ProjectMethods(cs[k], Get(cs[k], "methods", <<>>), <<>>)

\* variant: matches the name only, not the docstring
RECURSIVE MatchLoop_NameOnly(_, _, _)
MatchLoop_NameOnly(all_searchable, query_lower, matching_functions) ==
    IF all_searchable = <<>> THEN matching_functions
    ELSE LET func == Head(all_searchable)
         IN IF Contains(query_lower, lower(func.name))
            THEN MatchLoop_NameOnly(Tail(all_searchable), query_lower,
                                    Append(matching_functions, func))
            ELSE MatchLoop_NameOnly(Tail(all_searchable), query_lower, matching_functions)

\* variant: a record is appended once for its name and once for its docstring
RECURSIVE MatchLoop_PerField(_, _, _)
MatchLoop_PerField(all_searchable, query_lower, matching_functions) ==
    IF all_searchable = <<>> THEN matching_functions
    ELSE LET func == Head(all_searchable)
             byName == IF Contains(query_lower, lower(func.name))
                       THEN Append(matching_functions, func) ELSE matching_functions
             byDoc == IF Contains(query_lower, lower(Get(func, "docstring", <<>>)))
                      THEN Append(byName, func) ELSE byName
         IN MatchLoop_PerField(Tail(all_searchable), query_lower, byDoc)

\* the matching loop of search_openreview_functions
RECURSIVE MatchLoop(_, _, _)
MatchLoop(all_searchable, query_lower, matching_functions) ==
    IF all_searchable = <<>> THEN matching_functions
    ELSE LET func == Head(all_searchable)
         IN IF \/ Contains(query_lower, lower(func.name))
               \/ Contains(query_lower, lower(Get(func, "docstring", <<>>)))
            THEN MatchLoop(Tail(all_searchable), query_lower, Append(matching_functions, func))
            ELSE MatchLoop(Tail(all_searchable), query_lower, matching_functions)

\* variant: the tools are put in front of the derived functions
search_openreview_functions_ToolsFirst(query) ==
    LET functions == get_openreview_functions
        all_searchable == get_openreview_tools \o functions
        query_lower == lower(query)
    IN MatchLoop(all_searchable, query_lower, <<>>)

search_openreview_functions(query) ==
    LET functions == get_openreview_functions
        all_searchable == functions \o get_openreview_tools
        query_lower == lower(query)
    IN MatchLoop(all_searchable, query_lower, <<>>)

\* variant: openreview.stages is listed as well
KnownModules_WithStages ==
    <<ModOpenreview, ModApi, ModTools, ModVenue,
      OPENREVIEW \o DOT \o <<"s","t","a","g","e","s">>>>

KnownModules == <<ModOpenreview, ModApi, ModTools, ModVenue>>

TotalModules == 4

\* variant: the tools are counted among the functions
get_library_overview_ToolsCounted ==
    LET functions == get_openreview_functions
        cs == get_openreview_classes
        ts == get_openreview_tools
    IN [functions |-> functions,
        classes |-> cs,
        tools |-> ts,
        modules |-> KnownModules,
        statistics |-> [total_functions |-> Len(functions) + Len(ts),
                        total_classes |-> Len(cs),
                        total_tools |-> Len(ts),
                        total_modules |-> TotalModules],
        api_versions |-> [api_1 |-> "openreview.Client",
                          api_2 |-> "openreview.api.OpenReviewClient"],
        version |-> "unknown",
        last_updated |-> "2024-01-01"]

\* variant: the tools are listed among the functions
get_library_overview_FunctionsWithTools ==
    LET functions == get_openreview_functions \o get_openreview_tools
        cs == get_openreview_classes
        ts == get_openreview_tools
    IN [functions |-> functions,
        classes |-> cs,
        tools |-> ts,
        modules |-> KnownModules,
        statistics |-> [total_functions |-> Len(functions),
                        total_classes |-> Len(cs),
                        total_tools |-> Len(ts),
                        total_modules |-> TotalModules],
        api_versions |-> [api_1 |-> "openreview.Client",
                          api_2 |-> "openreview.api.OpenReviewClient"],
        version |-> "unknown",
        last_updated |-> "2024-01-01"]

get_library_overview ==
    LET functions == get_openreview_functions
        cs == get_openreview_classes
        ts == get_openreview_tools
    IN [functions |-> functions,
        classes |-> cs,
        tools |-> ts,
        modules |-> KnownModules,
        statistics |-> [total_functions |-> Len(functions),
                        total_classes |-> Len(cs),
                        total_tools |-> Len(ts),
                        total_modules |-> TotalModules],
        api_versions |-> [api_1 |-> "openreview.Client",
                          api_2 |-> "openreview.api.OpenReviewClient"],
        version |-> "unknown",
        last_updated |-> "2024-01-01"]

----------------------------------------------------------------------------
(* Query tools: src/src/server.py.  Each handler yields the outcome handed *)
(* to the caller (a returned value or a raised exception) and the sequence *)
(* of context notifications and repository calls it made.                  *)

Returned(v) == [kind |-> "return", value |-> v]

Raised(exc, msg) == [kind |-> "raise", exc |-> exc, msg |-> msg]

\* an f-string: its literal text with {} for each interpolated value
Msg(fmt, args) == [fmt |-> fmt, args |-> args]

Outcome(r, c) == [result |-> r, calls |-> c]

PyBool(b) == [type |-> "bool", val |-> IF b THEN <<"T">> ELSE <<"F">>]

\* variant: only the empty query is short-circuited, not the blank one
search_openreview_api_NoBlankCheck(query, now) ==
    IF ~isinstance_str(query)
    THEN Outcome(Raised("TypeError",
                        Msg("Expected query to be a string, got {}", <<query.type>>)),
                 <<"ctx.info", "ctx.error", "ctx.error">>)
    ELSE IF query.val = <<>>
    THEN Outcome(Returned([status |-> "success", count |-> 0, results |-> <<>>,
                           metadata |-> [timestamp |-> now, query |-> query.val]]),
                 <<"ctx.info", "ctx.warning">>)
    ELSE LET matching_functions == search_openreview_functions(strip(query.val))
         IN Outcome(Returned([status |-> "success",
                              count |-> Len(matching_functions),
                              results |-> matching_functions,
                              metadata |-> [timestamp |-> now, query |-> query.val]]),
                    <<"ctx.info", "search_openreview_functions",
                      "get_openreview_functions", "get_openreview_classes",
                      "get_openreview_tools", "ctx.info">>)

search_openreview_api(query, now) ==
    IF ~isinstance_str(query)
    THEN Outcome(Raised("TypeError",
                        Msg("Expected query to be a string, got {}", <<query.type>>)),
                 <<"ctx.info", "ctx.error", "ctx.error">>)
    ELSE IF query.val = <<>> \/ strip(query.val) = <<>>
    THEN Outcome(Returned([status |-> "success", count |-> 0, results |-> <<>>,
                           metadata |-> [timestamp |-> now, query |-> query.val]]),
                 <<"ctx.info", "ctx.warning">>)
    ELSE LET matching_functions == search_openreview_functions(strip(query.val))
         IN Outcome(Returned([status |-> "success",
                              count |-> Len(matching_functions),
                              results |-> matching_functions,
                              metadata |-> [timestamp |-> now, query |-> query.val]]),
                    <<"ctx.info", "search_openreview_functions",
                      "get_openreview_functions", "get_openreview_classes",
                      "get_openreview_tools", "ctx.info">>)

\* variant: names are compared without regard to letter case
RECURSIVE FindFunction_IgnoreCase(_, _, _)
FindFunction_IgnoreCase(functions, function_name, i) ==
    IF i > Len(functions) THEN 0
    ELSE IF lower(functions[i].name) = lower(function_name) THEN i
    ELSE FindFunction_IgnoreCase(functions, function_name, i + 1)

\* variant: the scan misses the first record
RECURSIVE FindFunction_SkipFirst(_, _, _)
FindFunction_SkipFirst(functions, function_name, i) ==
    IF i + 1 > Len(functions) THEN 0
    ELSE IF functions[i + 1].name = function_name THEN i + 1
    ELSE FindFunction_SkipFirst(functions, function_name, i + 1)

\* the lookup loop of get_function_details: index of the first record whose
\* name equals function_name, 0 when the loop falls through
RECURSIVE FindFunction(_, _, _)
FindFunction(functions, function_name, i) ==
    IF i > Len(functions) THEN 0
    ELSE IF functions[i].name = function_name THEN i
    ELSE FindFunction(functions, function_name, i + 1)

\* variant: the empty name is not short-circuited and reaches the lookup
get_function_details_NoEmptyCheck(function_name) ==
    IF ~isinstance_str(function_name)
    THEN Outcome(Raised("TypeError",
                        Msg("Expected function_name to be a string, got {}",
                            <<function_name.type>>)),
                 <<"ctx.info", "ctx.error", "ctx.error">>)
    ELSE Outcome(Returned([error |-> Msg("Function '{}' not found",
                                         <<function_name.val>>)]),
                 <<"ctx.info", "get_openreview_functions",
                   "get_openreview_classes", "ctx.warning">>)

\* variant: the lookup runs over the derived functions and the tools
get_function_details_SearchesTools(function_name) ==
    IF ~isinstance_str(function_name)
    THEN Outcome(Raised("TypeError",
                        Msg("Expected function_name to be a string, got {}",
                            <<function_name.type>>)),
                 <<"ctx.info", "ctx.error", "ctx.error">>)
    ELSE IF function_name.val = <<>>
    THEN Outcome(Returned([error |-> Msg("Empty function name provided", <<>>)]),
                 <<"ctx.info", "ctx.warning">>)
    ELSE LET functions == get_openreview_functions \o get_openreview_tools
             i == FindFunction(functions, function_name.val, 1)
         IN IF i # 0
            THEN LET func == functions[i]
                 IN Outcome(Returned([parameters |-> <<>>,
                                      return_type |-> Get(func, "return_type", "unknown"),
                                      examples |-> <<>>,
                                      related_functions |-> <<>>] @@ func),
                            <<"ctx.info", "get_openreview_functions",
                              "get_openreview_classes", "ctx.info">>)
            ELSE Outcome(Returned([error |-> Msg("Function '{}' not found",
                                                 <<function_name.val>>)]),
                         <<"ctx.info", "get_openreview_functions",
                           "get_openreview_classes", "ctx.warning">>)

\* variant: the related_functions placeholder is left out
get_function_details_NoRelated(function_name) ==
    IF ~isinstance_str(function_name)
    THEN Outcome(Raised("TypeError",
                        Msg("Expected function_name to be a string, got {}",
                            <<function_name.type>>)),
                 <<"ctx.info", "ctx.error", "ctx.error">>)
    ELSE IF function_name.val = <<>>
    THEN Outcome(Returned([error |-> Msg("Empty function name provided", <<>>)]),
                 <<"ctx.info", "ctx.warning">>)
    ELSE LET functions == get_openreview_functions
             i == FindFunction(functions, function_name.val, 1)
         IN IF i # 0
            THEN LET func == functions[i]
                 IN Outcome(Returned([parameters |-> <<>>,
                                      return_type |-> Get(func, "return_type", "unknown"),
                                      examples |-> <<>>] @@ func),
                            <<"ctx.info", "get_openreview_functions",
                              "get_openreview_classes", "ctx.info">>)
            ELSE Outcome(Returned([error |-> Msg("Function '{}' not found",
                                                 <<function_name.val>>)]),
                         <<"ctx.info", "get_openreview_functions",
                           "get_openreview_classes", "ctx.warning">>)

get_function_details(function_name) ==
    IF ~isinstance_str(function_name)
    THEN Outcome(Raised("TypeError",
                        Msg("Expected function_name to be a string, got {}",
                            <<function_name.type>>)),
                 <<"ctx.info", "ctx.error", "ctx.error">>)
    ELSE IF function_name.val = <<>>
    THEN Outcome(Returned([error |-> Msg("Empty function name provided", <<>>)]),
                 <<"ctx.info", "ctx.warning">>)
    ELSE LET functions == get_openreview_functions
             i == FindFunction(functions, function_name.val, 1)
         IN IF i # 0
            THEN LET func == functions[i]
                 IN Outcome(Returned([parameters |-> <<>>,
                                      return_type |-> Get(func, "return_type", "unknown"),
                                      examples |-> <<>>,
                                      related_functions |-> <<>>] @@ func),
                            <<"ctx.info", "get_openreview_functions",
                              "get_openreview_classes", "ctx.info">>)
            ELSE Outcome(Returned([error |-> Msg("Function '{}' not found",
                                                 <<function_name.val>>)]),
                         <<"ctx.info", "get_openreview_functions",
                           "get_openreview_classes", "ctx.warning">>)

\* variant: the filter is matched as a prefix of the module
list_openreview_functions_Prefix(filter_by_module, now) ==
    LET all == get_openreview_functions
        functions == IF Truthy(filter_by_module)
                     THEN SelectSeq(all, LAMBDA f :
                              startswith(Get(f, "module", <<>>), filter_by_module.val))
                     ELSE all
    IN Outcome(Returned([status |-> "success",
                         count |-> Len(functions),
                         functions |-> functions,
                         metadata |-> [timestamp |-> now, filter |-> filter_by_module]]),
               <<"ctx.info", "get_openreview_functions", "get_openreview_classes",
                 "ctx.info">>)

list_openreview_functions(filter_by_module, now) ==
    LET all == get_openreview_functions
        functions == IF Truthy(filter_by_module)
                     THEN SelectSeq(all, LAMBDA f : Get(f, "module", <<>>) = filter_by_module.val)
                     ELSE all
    IN Outcome(Returned([status |-> "success",
                         count |-> Len(functions),
                         functions |-> functions,
                         metadata |-> [timestamp |-> now, filter |-> filter_by_module]]),
               <<"ctx.info", "get_openreview_functions", "get_openreview_classes",
                 "ctx.info">>)

RECURSIVE SumMethods(_)
SumMethods(cs) ==
    IF cs = <<>> THEN 0 ELSE Len(Get(Head(cs), "methods", <<>>)) + SumMethods(Tail(cs))

\* variant: the methods are counted whether or not they are returned
list_openreview_classes_AlwaysCounts(include_methods, now) ==
    LET fresh == get_openreview_classes
        cs == IF ~include_methods
              THEN [i \in 1..Len(fresh) |-> Pop(fresh[i], "methods")]
              ELSE fresh
        method_count == SumMethods(fresh)
    IN Outcome(Returned([status |-> "success",
                         count |-> Len(cs),
                         classes |-> cs,
                         metadata |-> [timestamp |-> now,
                                       include_methods |-> include_methods,
                                       method_count |-> method_count]]),
               <<"ctx.info", "get_openreview_classes", "ctx.info">>)
       @@ [classes |-> ClassesAfterWrite(cs)]

list_openreview_classes(include_methods, now) ==
    LET fresh == get_openreview_classes
        cs == IF ~include_methods
              THEN [i \in 1..Len(fresh) |-> Pop(fresh[i], "methods")]
              ELSE fresh
        method_count == IF include_methods THEN SumMethods(cs) ELSE 0
    IN Outcome(Returned([status |-> "success",
                         count |-> Len(cs),
                         classes |-> cs,
                         metadata |-> [timestamp |-> now,
                                       include_methods |-> include_methods,
                                       method_count |-> IF include_methods
                                                        THEN method_count ELSE 0]]),
               <<"ctx.info", "get_openreview_classes", "ctx.info">>)
       @@ [classes |-> ClassesAfterWrite(cs)]

get_openreview_overview ==
    Outcome(Returned(get_library_overview),
            <<"ctx.info", "ctx.debug", "get_library_overview",
              "get_openreview_functions", "get_openreview_classes",
              "get_openreview_classes", "get_openreview_tools", "ctx.info">>)

\* variant: count is taken from the derived functions
get_utility_tools_FunctionCount ==
    LET ts == get_openreview_tools
    IN Outcome(Returned([status |-> "success",
                         count |-> Len(get_openreview_functions),
                         tools |-> ts,
                         metadata |-> [module |-> "openreview.tools",
                                       description |-> "Advanced utility functions that wrap complex operations"]]),
               <<"ctx.info", "get_openreview_tools", "ctx.info">>)

get_utility_tools ==
    LET ts == get_openreview_tools
    IN Outcome(Returned([status |-> "success",
                         count |-> Len(ts),
                         tools |-> ts,
                         metadata |-> [module |-> "openreview.tools",
                                       description |-> "Advanced utility functions that wrap complex operations"]]),
               <<"ctx.info", "get_openreview_tools", "ctx.info">>)

get_venue_class_details(now) ==
    LET cs == get_openreview_classes
        k == FirstNamed(cs, Venue)
    IN IF k = 0
       THEN Outcome(Returned([error |-> "Venue class not found in class definitions"]),
                    <<"ctx.info", "get_openreview_classes", "ctx.error">>)
       ELSE LET venue_class == cs[k]
            IN Outcome(Returned([status |-> "success",
                                 class |-> venue_class,
                                 usage_notes |-> "Venue usage notes",
                                 metadata |-> [timestamp |-> now,
                                               module |-> Get(venue_class, "module", None),
                                               method_count |->
                                                   Len(Get(venue_class, "methods", <<>>))]]),
                       <<"ctx.info", "get_openreview_classes", "ctx.info">>)

\* variant: the class looked up is Venue
get_group_builder_details_FindsVenue(now) ==
    LET cs == get_openreview_classes
        k == FirstNamed(cs, Venue)
    IN IF k = 0
       THEN Outcome(Returned([error |-> "GroupBuilder class not found in class definitions"]),
                    <<"ctx.info", "get_openreview_classes", "ctx.error">>)
       ELSE LET group_builder_class == cs[k]
            IN Outcome(Returned([status |-> "success",
                                 class |-> group_builder_class,
                                 usage_notes |-> "GroupBuilder usage notes",
                                 metadata |-> [timestamp |-> now,
                                               module |-> Get(group_builder_class, "module", None),
                                               method_count |->
                                                   Len(Get(group_builder_class, "methods", <<>>))]]),
                       <<"ctx.info", "get_openreview_classes", "ctx.info">>)

get_group_builder_details(now) ==
    LET cs == get_openreview_classes
        k == FirstNamed(cs, GroupBuilder)
    IN IF k = 0
       THEN Outcome(Returned([error |-> "GroupBuilder class not found in class definitions"]),
                    <<"ctx.info", "get_openreview_classes", "ctx.error">>)
       ELSE LET group_builder_class == cs[k]
            IN Outcome(Returned([status |-> "success",
                                 class |-> group_builder_class,
                                 usage_notes |-> "GroupBuilder usage notes",
                                 metadata |-> [timestamp |-> now,
                                               module |-> Get(group_builder_class, "module", None),
                                               method_count |->
                                                   Len(Get(group_builder_class, "methods", <<>>))]]),
                       <<"ctx.info", "get_openreview_classes", "ctx.info">>)

----------------------------------------------------------------------------
(* State machine: the catalog is fixed at construction; afterwards tool    *)
(* calls arrive one at a time with arbitrary arguments.  A handler runs to *)
(* its return or raise (op, arg, result, calls describe that invocation),  *)
(* the outcome is handed to the caller and the server is idle again.       *)

\* arguments a caller may pass where a str is declared
Arguments == {PyStr(s) : s \in Strings} \cup {PyInt, PyList, None}

\* module filters: absent, empty, and every module path or class path of
\* the catalog pool
Filters ==
    {None, PyStr(<<>>), PyStr(ModTools)}
    \cup {PyStr(c.module) : c \in ClassPool}
    \cup {PyStr(c.module \o DOT \o c.name) : c \in ClassPool}

\* tool calls in flight on the event loop (used by ConcSpec; none in Spec)
TaskIds == {"t1", "t2"}

IdleTask == [pc |-> "idle"]

Init ==
    /\ classes \in SeqsUpTo(ClassPool, MaxClasses)
    /\ tools \in SeqsUpTo(ToolPool, MaxTools)
    /\ op = "idle"
    /\ arg = None
    /\ result = [kind |-> "none"]
    /\ calls = <<>>
    /\ tasks = [t \in TaskIds |-> IdleTask]

\* a handler runs; `classes` in its outcome is the canonical list after the
\* handler's writes to the list it was handed
Finish(name, a, out) ==
    /\ op = "idle"
    /\ op' = name
    /\ arg' = a
    /\ result' = out.result
    /\ calls' = out.calls
    /\ classes' = Get(out, "classes", classes)
    /\ UNCHANGED <<tools, tasks>>

SearchCall ==
    \E query \in Arguments, now \in Timestamps :
        Finish("search_openreview_api", query, search_openreview_api(query, now))

DetailsCall ==
    \E function_name \in Arguments :
        Finish("get_function_details", function_name, get_function_details(function_name))

ListFunctionsCall ==
    \E filter_by_module \in Filters, now \in Timestamps :
        Finish("list_openreview_functions", filter_by_module,
               list_openreview_functions(filter_by_module, now))

ListClassesCall ==
    \E include_methods \in BOOLEAN, now \in Timestamps :
        Finish("list_openreview_classes", PyBool(include_methods),
               list_openreview_classes(include_methods, now))

OverviewCall ==
    Finish("get_openreview_overview", None, get_openreview_overview)

UtilityToolsCall ==
    Finish("get_utility_tools", None, get_utility_tools)

\* the outcome has been handed to the caller
Reply ==
    /\ op # "idle"
    /\ op' = "idle"
    /\ arg' = None
    /\ result' = [kind |-> "none"]
    /\ calls' = <<>>
    /\ UNCHANGED <<classes, tools, tasks>>

\* what a caller may do to a list it was handed: empty it, or remove a key
\* from each of its dicts
Writes(list) == {<<>>, [i \in 1..Len(list) |-> Pop(list[i], "docstring")]} \ {list}

\* the caller changes the classes list or the tools list of the value it
\* received
CallerMutates ==
    /\ op \in {"list_openreview_classes", "get_openreview_overview", "get_utility_tools"}
    /\ result.kind = "return"
    /\ \/ /\ "classes" \in DOMAIN result.value
          /\ \E written \in Writes(result.value.classes) :
                /\ result' = [result EXCEPT !.value.classes = written]
                /\ classes' = ClassesAfterWrite(written)
                /\ tools' = tools
       \/ /\ "tools" \in DOMAIN result.value
          /\ \E written \in Writes(result.value.tools) :
                /\ result' = [result EXCEPT !.value.tools = written]
                /\ tools' = ToolsAfterWrite(written)
                /\ classes' = classes
    /\ op' = "caller_mutation"
    /\ UNCHANGED <<arg, calls, tasks>>

Next ==
    \/ SearchCall
    \/ DetailsCall
    \/ ListFunctionsCall
    \/ ListClassesCall
    \/ OverviewCall
    \/ UtilityToolsCall
    \/ CallerMutates
    \/ Reply

Spec == Init /\ [][Next]_vars

----------------------------------------------------------------------------
(* Concurrent tool calls.  The handlers are coroutines on one event loop:  *)
(* a call runs without interruption from one await to the next.  Every     *)
(* handler awaits ctx.info first, then computes its locals from the        *)
(* repository, awaits a second notification, and then builds the value it  *)
(* returns (taking the timestamp) from its locals.                         *)

ConcClassPool ==
    { MkClass(OpenReviewClient, ModApi, <<M_init, M_a, M_priv>>),
      MkClass(Client, ModOpenreview, <<M_init, M_A, M_aA>>) }

ConcCalls ==
    {[op |-> "list_openreview_classes", arg |-> PyBool(b)] : b \in BOOLEAN}
    \cup {[op |-> "list_openreview_functions", arg |-> None],
          [op |-> "search_openreview_api", arg |-> PyStr(<<"a">>)],
          [op |-> "get_function_details", arg |-> PyStr(<<"a">>)],
          [op |-> "get_function_details", arg |-> PyInt],
          [op |-> "get_openreview_overview", arg |-> None],
          [op |-> "get_utility_tools", arg |-> None]}

\* the tool registered under a name, applied to its argument
Handle(name, a, now) ==
    CASE name = "search_openreview_api" -> search_openreview_api(a, now)
      [] name = "get_function_details" -> get_function_details(a)
      [] name = "list_openreview_functions" -> list_openreview_functions(a, now)
      [] name = "list_openreview_classes" -> list_openreview_classes(a = PyBool(TRUE), now)
      [] name = "get_openreview_overview" -> get_openreview_overview
      [] name = "get_utility_tools" -> get_utility_tools

\* the value behind the references a suspended handler holds: a list of its
\* own, or the canonical list as it is now
Materialise(r) ==
    LET c == IF /\ ClassesLiteralScope = "module"
                /\ r.kind = "return" /\ "classes" \in DOMAIN r.value
             THEN [r EXCEPT !.value.classes = classes] ELSE r
    IN IF /\ ToolsLiteralScope = "module"
          /\ c.kind = "return" /\ "tools" \in DOMAIN c.value
       THEN [c EXCEPT !.value.tools = tools] ELSE c

HasTimestamp(r) ==
    /\ r.kind = "return"
    /\ "metadata" \in DOMAIN r.value
    /\ "timestamp" \in DOMAIN r.value.metadata

\* datetime.datetime.now().isoformat() in the returned dict
WithTimestamp(r, now) ==
    IF HasTimestamp(r) THEN [r EXCEPT !.value.metadata.timestamp = now] ELSE r

ConcInit ==
    /\ classes \in SeqsUpTo(ConcClassPool, MaxClasses)
    /\ tools \in SeqsUpTo({T_a}, MaxTools)
    /\ op = "idle"
    /\ arg = None
    /\ result = [kind |-> "none"]
    /\ calls = <<>>
    /\ tasks = [t \in TaskIds |-> IdleTask]

\* a call arrives and runs up to its first await
TaskCall(t) ==
    /\ tasks[t].pc = "idle"
    /\ \E c \in ConcCalls :
          tasks' = [tasks EXCEPT ![t] = [pc |-> "called", op |-> c.op, arg |-> c.arg]]
    /\ UNCHANGED <<classes, tools, op, arg, result, calls>>

IsStrip(name, a) == name = "list_openreview_classes" /\ a = PyBool(FALSE)

\* resumed, the handler reads the repository and computes its locals, up to
\* its next await; `overlapped` of a suspended call records that a
\* list_classes(include_methods=False) ran meanwhile
TaskCompute(t) ==
    /\ tasks[t].pc = "called"
    /\ LET out == Handle(tasks[t].op, tasks[t].arg, 0)
       IN /\ tasks' = [u \in TaskIds |->
                         IF u = t
                         THEN [pc |-> "computed", op |-> tasks[t].op, arg |-> tasks[t].arg,
                               held |-> out.result, overlapped |-> FALSE]
                         ELSE IF tasks[u].pc = "computed" /\ IsStrip(tasks[t].op, tasks[t].arg)
                         THEN [tasks[u] EXCEPT !.overlapped = TRUE]
                         ELSE tasks[u]]
          /\ classes' = Get(out, "classes", classes)
    /\ UNCHANGED <<tools, op, arg, result, calls>>

\* variant: a handler returns only while no other handler holds locals
TaskReturn_Blocked(t) ==
    /\ tasks[t].pc = "computed"
    /\ \A u \in TaskIds \ {t} : tasks[u].pc # "computed"
    /\ \E now \in Timestamps :
          tasks' = [tasks EXCEPT ![t] =
                       [pc |-> "done", op |-> tasks[t].op, arg |-> tasks[t].arg,
                        result |-> WithTimestamp(Materialise(tasks[t].held), now),
                        overlapped |-> tasks[t].overlapped]]
    /\ UNCHANGED <<classes, tools, op, arg, result, calls>>

\* resumed again, the handler builds its return value from its locals
TaskReturn(t) ==
    /\ tasks[t].pc = "computed"
    /\ \E now \in Timestamps :
          tasks' = [tasks EXCEPT ![t] =
                       [pc |-> "done", op |-> tasks[t].op, arg |-> tasks[t].arg,
                        result |-> WithTimestamp(Materialise(tasks[t].held), now),
                        overlapped |-> tasks[t].overlapped]]
    /\ UNCHANGED <<classes, tools, op, arg, result, calls>>

\* the caller has taken the outcome
TaskCollect(t) ==
    /\ tasks[t].pc = "done"
    /\ tasks' = [tasks EXCEPT ![t] = IdleTask]
    /\ UNCHANGED <<classes, tools, op, arg, result, calls>>

ConcNext ==
    \E t \in TaskIds :
        \/ TaskCall(t)
        \/ TaskCompute(t)
        \/ TaskReturn(t)
        \/ TaskCollect(t)

ConcSpec == ConcInit /\ [][ConcNext]_vars

\* the event loop resumes every coroutine whose await has completed: a
\* handler that can take its next step eventually takes it.  The handlers'
\* loops run once over the catalog, so the catalogs considered are the empty
\* one and the longest one, with the primary class found last.
FairConcInit ==
    /\ ConcInit
    /\ \/ classes = <<>>
       \/ /\ Len(classes) = MaxClasses
          /\ \A i \in 1..MaxClasses : (classes[i].name = OpenReviewClient) = (i = MaxClasses)
    /\ Len(tools) = MaxTools

FairConcSpec ==
    /\ FairConcInit
    /\ [][ConcNext]_vars
    /\ \A t \in TaskIds : WF_vars(TaskCompute(t)) /\ WF_vars(TaskReturn(t))

----------------------------------------------------------------------------
(* The two class-documentation tools, over catalogs with and without the   *)
(* classes they look up.                                                   *)

DetailClassPool ==
    { MkClass(Venue, ModVenue, <<M_init, M_a, M_A>>),
      MkClass(Venue, ModOpenreview, <<M_a>>),
      [name |-> Venue, docstring |-> <<>>, module |-> ModVenue],
      MkClass(GroupBuilder, ModVenue, <<M_init, M_a>>),
      MkClass(GroupBuilder, ModApi, <<>>),
      MkClass(OpenReviewClient, ModApi, <<M_init, M_a, M_priv, M_b>>) }

DetailInit ==
    /\ classes \in SeqsUpTo(DetailClassPool, MaxClasses)
    /\ tools \in SeqsUpTo(ToolPool, MaxTools)
    /\ op = "idle"
    /\ arg = None
    /\ result = [kind |-> "none"]
    /\ calls = <<>>
    /\ tasks = [t \in TaskIds |-> IdleTask]

VenueDetailsCall ==
    \E now \in Timestamps :
        Finish("get_venue_class_details", None, get_venue_class_details(now))

GroupBuilderDetailsCall ==
    \E now \in Timestamps :
        Finish("get_group_builder_details", None, get_group_builder_details(now))

DetailNext ==
    \/ VenueDetailsCall
    \/ GroupBuilderDetailsCall
    \/ Reply

DetailSpec == DetailInit /\ [][DetailNext]_vars

----------------------------------------------------------------------------
(* The shipped catalog: the classes and tools the list literals of         *)
(* get_openreview_classes and get_openreview_tools hold, with every name   *)
(* and module path as written there.  The signature and docstring texts    *)
(* are abbreviated: each record carries its name in their place.           *)

ShippedClientMethods ==
    << <<"_","_","i","n","i","t","_","_">>,
       <<"i","m","p","e","r","s","o","n","a","t","e">>,
       <<"l","o","g","i","n","_","u","s","e","r">>,
       <<"g","e","t","_","g","r","o","u","p">>,
       <<"g","e","t","_","i","n","v","i","t","a","t","i","o","n">>,
       <<"g","e","t","_","n","o","t","e">>,
       <<"g","e","t","_","t","a","g">>,
       <<"g","e","t","_","e","d","g","e">>,
       <<"g","e","t","_","p","r","o","f","i","l","e">>,
       <<"g","e","t","_","p","r","o","f","i","l","e","s">>,
       <<"s","e","a","r","c","h","_","p","r","o","f","i","l","e","s">>,
       <<"g","e","t","_","p","d","f">>,
       <<"g","e","t","_","a","t","t","a","c","h","m","e","n","t">>,
       <<"g","e","t","_","v","e","n","u","e","s">>,
       <<"p","u","t","_","a","t","t","a","c","h","m","e","n","t">>,
       <<"p","o","s","t","_","p","r","o","f","i","l","e">>,
       <<"g","e","t","_","g","r","o","u","p","s">>,
       <<"g","e","t","_","a","l","l","_","g","r","o","u","p","s">>,
       <<"g","e","t","_","i","n","v","i","t","a","t","i","o","n","s">>,
       <<"g","e","t","_","a","l","l","_","i","n","v","i","t","a","t","i","o","n","s">>,
       <<"g","e","t","_","n","o","t","e","s">>,
       <<"g","e","t","_","a","l","l","_","n","o","t","e","s">>,
       <<"p","o","s","t","_","t","a","g">>,
       <<"p","o","s","t","_","t","a","g","s">>,
       <<"g","e","t","_","t","a","g","s">>,
       <<"g","e","t","_","a","l","l","_","t","a","g","s">>,
       <<"g","e","t","_","e","d","g","e","s">>,
       <<"g","e","t","_","a","l","l","_","e","d","g","e","s">>,
       <<"g","e","t","_","e","d","g","e","s","_","c","o","u","n","t">>,
       <<"g","e","t","_","g","r","o","u","p","e","d","_","e","d","g","e","s">>,
       <<"g","e","t","_","a","r","c","h","i","v","e","d","_","e","d","g","e","s">>,
       <<"p","o","s","t","_","e","d","g","e">>,
       <<"p","o","s","t","_","e","d","g","e","s">>,
       <<"d","e","l","e","t","e","_","e","d","g","e","s">>,
       <<"d","e","l","e","t","e","_","t","a","g","s">>,
       <<"d","e","l","e","t","e","_","n","o","t","e">>,
       <<"d","e","l","e","t","e","_","p","r","o","f","i","l","e","_","r","e","f","e","r","e","n","c","e">>,
       <<"d","e","l","e","t","e","_","g","r","o","u","p">>,
       <<"p","o","s","t","_","m","e","s","s","a","g","e">>,
       <<"a","d","d","_","m","e","m","b","e","r","s","_","t","o","_","g","r","o","u","p">>,
       <<"r","e","m","o","v","e","_","m","e","m","b","e","r","s","_","f","r","o","m","_","g","r","o","u","p">>,
       <<"s","e","a","r","c","h","_","n","o","t","e","s">>,
       <<"g","e","t","_","n","o","t","e","s","_","b","y","_","i","d","s">>,
       <<"g","e","t","_","m","e","s","s","a","g","e","s">>,
       <<"g","e","t","_","p","r","o","c","e","s","s","_","l","o","g","s">> >>

ShippedOpenReviewClientMethods ==
    << <<"_","_","i","n","i","t","_","_">>,
       <<"l","o","g","i","n","_","u","s","e","r">>,
       <<"r","e","g","i","s","t","e","r","_","u","s","e","r">>,
       <<"a","c","t","i","v","a","t","e","_","u","s","e","r">>,
       <<"i","m","p","e","r","s","o","n","a","t","e">>,
       <<"c","o","n","f","i","r","m","_","a","l","t","e","r","n","a","t","e","_","e","m","a","i","l">>,
       <<"a","c","t","i","v","a","t","e","_","e","m","a","i","l","_","w","i","t","h","_","t","o","k","e","n">>,
       <<"g","e","t","_","a","c","t","i","v","a","t","a","b","l","e">>,
       <<"g","e","t","_","g","r","o","u","p">>,
       <<"g","e","t","_","g","r","o","u","p","s">>,
       <<"g","e","t","_","a","l","l","_","g","r","o","u","p","s">>,
       <<"p","o","s","t","_","g","r","o","u","p","_","e","d","i","t">>,
       <<"g","e","t","_","g","r","o","u","p","_","e","d","i","t">>,
       <<"g","e","t","_","g","r","o","u","p","_","e","d","i","t","s">>,
       <<"a","d","d","_","m","e","m","b","e","r","s","_","t","o","_","g","r","o","u","p">>,
       <<"r","e","m","o","v","e","_","m","e","m","b","e","r","s","_","f","r","o","m","_","g","r","o","u","p">>,
       <<"d","e","l","e","t","e","_","g","r","o","u","p">>,
       <<"f","l","u","s","h","_","m","e","m","b","e","r","s","_","c","a","c","h","e">>,
       <<"g","e","t","_","i","n","v","i","t","a","t","i","o","n">>,
       <<"g","e","t","_","i","n","v","i","t","a","t","i","o","n","s">>,
       <<"g","e","t","_","a","l","l","_","i","n","v","i","t","a","t","i","o","n","s">>,
       <<"p","o","s","t","_","i","n","v","i","t","a","t","i","o","n","_","e","d","i","t">>,
       <<"g","e","t","_","i","n","v","i","t","a","t","i","o","n","_","e","d","i","t">>,
       <<"g","e","t","_","i","n","v","i","t","a","t","i","o","n","_","e","d","i","t","s">>,
       <<"g","e","t","_","i","n","v","i","t","a","t","i","o","n","_","d","a","t","e","_","p","r","o","c","e","s","s","_","j","o","b">>,
       <<"r","e","s","c","h","e","d","u","l","e","_","d","a","t","e","_","p","r","o","c","e","s","s","_","j","o","b","s">>,
       <<"g","e","t","_","n","o","t","e">>,
       <<"g","e","t","_","n","o","t","e","s">>,
       <<"g","e","t","_","a","l","l","_","n","o","t","e","s">>,
       <<"p","o","s","t","_","n","o","t","e","_","e","d","i","t">>,
       <<"g","e","t","_","n","o","t","e","_","e","d","i","t">>,
       <<"g","e","t","_","n","o","t","e","_","e","d","i","t","s">>,
       <<"s","e","a","r","c","h","_","n","o","t","e","s">>,
       <<"g","e","t","_","n","o","t","e","s","_","b","y","_","i","d","s">>,
       <<"d","e","l","e","t","e","_","n","o","t","e">>,
       <<"g","e","t","_","t","a","g">>,
       <<"g","e","t","_","t","a","g","s">>,
       <<"g","e","t","_","a","l","l","_","t","a","g","s">>,
       <<"p","o","s","t","_","t","a","g">>,
       <<"p","o","s","t","_","t","a","g","s">>,
       <<"r","e","n","a","m","e","_","t","a","g","s">>,
       <<"d","e","l","e","t","e","_","t","a","g","s">>,
       <<"g","e","t","_","e","d","g","e">>,
       <<"g","e","t","_","e","d","g","e","s">>,
       <<"g","e","t","_","a","l","l","_","e","d","g","e","s">>,
       <<"g","e","t","_","e","d","g","e","s","_","c","o","u","n","t">>,
       <<"g","e","t","_","g","r","o","u","p","e","d","_","e","d","g","e","s">>,
       <<"g","e","t","_","a","r","c","h","i","v","e","d","_","e","d","g","e","s">>,
       <<"p","o","s","t","_","e","d","g","e">>,
       <<"p","o","s","t","_","e","d","g","e","s">>,
       <<"r","e","n","a","m","e","_","e","d","g","e","s">>,
       <<"d","e","l","e","t","e","_","e","d","g","e","s">>,
       <<"g","e","t","_","p","r","o","f","i","l","e">>,
       <<"g","e","t","_","p","r","o","f","i","l","e","s">>,
       <<"s","e","a","r","c","h","_","p","r","o","f","i","l","e","s">>,
       <<"p","o","s","t","_","p","r","o","f","i","l","e">>,
       <<"r","e","n","a","m","e","_","p","r","o","f","i","l","e">>,
       <<"m","e","r","g","e","_","p","r","o","f","i","l","e","s">>,
       <<"m","o","d","e","r","a","t","e","_","p","r","o","f","i","l","e">>,
       <<"d","e","l","e","t","e","_","p","r","o","f","i","l","e","_","r","e","f","e","r","e","n","c","e">>,
       <<"u","p","d","a","t","e","_","r","e","l","a","t","i","o","n","_","r","e","a","d","e","r","s">>,
       <<"p","o","s","t","_","m","e","s","s","a","g","e">>,
       <<"p","o","s","t","_","m","e","s","s","a","g","e","_","r","e","q","u","e","s","t">>,
       <<"g","e","t","_","m","e","s","s","a","g","e","_","r","e","q","u","e","s","t","s">>,
       <<"p","o","s","t","_","d","i","r","e","c","t","_","m","e","s","s","a","g","e">>,
       <<"g","e","t","_","m","e","s","s","a","g","e","s">>,
       <<"g","e","t","_","p","d","f">>,
       <<"g","e","t","_","a","t","t","a","c","h","m","e","n","t">>,
       <<"p","u","t","_","a","t","t","a","c","h","m","e","n","t">>,
       <<"g","e","t","_","v","e","n","u","e","s">>,
       <<"p","o","s","t","_","v","e","n","u","e">>,
       <<"r","e","n","a","m","e","_","v","e","n","u","e">>,
       <<"r","e","n","a","m","e","_","d","o","m","a","i","n">>,
       <<"g","e","t","_","i","n","s","t","i","t","u","t","i","o","n","s">>,
       <<"p","o","s","t","_","i","n","s","t","i","t","u","t","i","o","n">>,
       <<"d","e","l","e","t","e","_","i","n","s","t","i","t","u","t","i","o","n">>,
       <<"g","e","t","_","t","i","l","d","e","u","s","e","r","n","a","m","e">>,
       <<"g","e","t","_","p","r","o","c","e","s","s","_","l","o","g","s">>,
       <<"g","e","t","_","j","o","b","s","_","s","t","a","t","u","s">>,
       <<"p","o","s","t","_","e","d","i","t">>,
       <<"r","e","q","u","e","s","t","_","e","x","p","e","r","t","i","s","e">>,
       <<"r","e","q","u","e","s","t","_","s","i","n","g","l","e","_","p","a","p","e","r","_","e","x","p","e","r","t","i","s","e">>,
       <<"r","e","q","u","e","s","t","_","p","a","p","e","r","_","s","i","m","i","l","a","r","i","t","y">>,
       <<"r","e","q","u","e","s","t","_","p","a","p","e","r","_","s","u","b","s","e","t","_","e","x","p","e","r","t","i","s","e">>,
       <<"r","e","q","u","e","s","t","_","u","s","e","r","_","s","u","b","s","e","t","_","e","x","p","e","r","t","i","s","e">>,
       <<"g","e","t","_","e","x","p","e","r","t","i","s","e","_","s","t","a","t","u","s">>,
       <<"g","e","t","_","e","x","p","e","r","t","i","s","e","_","j","o","b","s">>,
       <<"g","e","t","_","e","x","p","e","r","t","i","s","e","_","r","e","s","u","l","t","s">> >>

ShippedInvitationMethods ==
    << <<"_","_","i","n","i","t","_","_">>,
       <<"t","o","_","j","s","o","n">>,
       <<"f","r","o","m","_","j","s","o","n">>,
       <<"i","s","_","a","c","t","i","v","e">>,
       <<"g","e","t","_","c","o","n","t","e","n","t","_","v","a","l","u","e">>,
       <<"p","r","e","t","t","y","_","i","d">> >>

ShippedNoteMethods ==
    << <<"_","_","i","n","i","t","_","_">>,
       <<"t","o","_","j","s","o","n">>,
       <<"f","r","o","m","_","j","s","o","n">> >>

ShippedGroupMethods ==
    << <<"_","_","i","n","i","t","_","_">>,
       <<"g","e","t","_","c","o","n","t","e","n","t","_","v","a","l","u","e">>,
       <<"t","o","_","j","s","o","n">>,
       <<"f","r","o","m","_","j","s","o","n">>,
       <<"a","d","d","_","m","e","m","b","e","r">>,
       <<"r","e","m","o","v","e","_","m","e","m","b","e","r">>,
       <<"a","d","d","_","w","e","b","f","i","e","l","d">>,
       <<"p","o","s","t">>,
       <<"t","r","a","n","s","f","o","r","m","_","t","o","_","a","n","o","n","_","i","d","s">> >>

ShippedEdgeMethods ==
    << <<"_","_","i","n","i","t","_","_">>,
       <<"t","o","_","j","s","o","n">>,
       <<"f","r","o","m","_","j","s","o","n">> >>

ShippedTagMethods ==
    << <<"_","_","i","n","i","t","_","_">>,
       <<"t","o","_","j","s","o","n">>,
       <<"f","r","o","m","_","j","s","o","n">> >>

ShippedEditMethods ==
    << <<"_","_","i","n","i","t","_","_">>,
       <<"t","o","_","j","s","o","n">>,
       <<"f","r","o","m","_","j","s","o","n">> >>

ShippedProfileMethods ==
    << <<"_","_","i","n","i","t","_","_">>,
       <<"g","e","t","_","p","r","e","f","e","r","r","e","d","_","n","a","m","e">>,
       <<"g","e","t","_","p","r","e","f","e","r","r","e","d","_","e","m","a","i","l">>,
       <<"t","o","_","j","s","o","n">>,
       <<"f","r","o","m","_","j","s","o","n">> >>

ShippedVenueMethods ==
    << <<"_","_","i","n","i","t","_","_">>,
       <<"s","e","t","_","m","a","i","n","_","s","e","t","t","i","n","g","s">>,
       <<"s","e","t","u","p">>,
       <<"c","r","e","a","t","e","_","s","u","b","m","i","s","s","i","o","n","_","s","t","a","g","e">>,
       <<"c","r","e","a","t","e","_","r","e","v","i","e","w","_","s","t","a","g","e">>,
       <<"c","r","e","a","t","e","_","r","e","v","i","e","w","_","r","e","b","u","t","t","a","l","_","s","t","a","g","e">>,
       <<"c","r","e","a","t","e","_","m","e","t","a","_","r","e","v","i","e","w","_","s","t","a","g","e">>,
       <<"c","r","e","a","t","e","_","d","e","c","i","s","i","o","n","_","s","t","a","g","e">>,
       <<"c","r","e","a","t","e","_","b","i","d","_","s","t","a","g","e","s">>,
       <<"c","r","e","a","t","e","_","c","o","m","m","e","n","t","_","s","t","a","g","e">>,
       <<"c","r","e","a","t","e","_","e","t","h","i","c","s","_","r","e","v","i","e","w","_","s","t","a","g","e">>,
       <<"g","e","t","_","s","u","b","m","i","s","s","i","o","n","s">>,
       <<"r","e","c","r","u","i","t","_","r","e","v","i","e","w","e","r","s">>,
       <<"s","e","t","u","p","_","c","o","m","m","i","t","t","e","e","_","m","a","t","c","h","i","n","g">>,
       <<"s","e","t","_","a","s","s","i","g","n","m","e","n","t","s">>,
       <<"u","n","s","e","t","_","a","s","s","i","g","n","m","e","n","t","s">>,
       <<"p","o","s","t","_","d","e","c","i","s","i","o","n","s">>,
       <<"p","o","s","t","_","d","e","c","i","s","i","o","n","_","s","t","a","g","e">>,
       <<"s","e","n","d","_","d","e","c","i","s","i","o","n","_","n","o","t","i","f","i","c","a","t","i","o","n","s">>,
       <<"s","e","t","_","t","r","a","c","k","_","s","a","c","_","a","s","s","i","g","n","m","e","n","t","s">>,
       <<"c","o","m","p","u","t","e","_","r","e","v","i","e","w","e","r","s","_","s","t","a","t","s">>,
       <<"c","o","m","p","u","t","e","_","a","c","s","_","s","t","a","t","s">>,
       <<"g","e","t","_","c","o","m","m","i","t","t","e","e","_","n","a","m","e","s">>,
       <<"g","e","t","_","r","o","l","e","s">>,
       <<"g","e","t","_","s","u","b","m","i","s","s","i","o","n","_","i","d">>,
       <<"g","e","t","_","r","e","v","i","e","w","e","r","s","_","i","d">>,
       <<"g","e","t","_","a","r","e","a","_","c","h","a","i","r","s","_","i","d">>,
       <<"g","e","t","_","s","e","n","i","o","r","_","a","r","e","a","_","c","h","a","i","r","s","_","i","d">>,
       <<"g","e","t","_","p","r","o","g","r","a","m","_","c","h","a","i","r","s","_","i","d">>,
       <<"g","e","t","_","a","u","t","h","o","r","s","_","i","d">>,
       <<"g","e","t","_","b","i","d","_","i","d">>,
       <<"g","e","t","_","a","s","s","i","g","n","m","e","n","t","_","i","d">>,
       <<"g","e","t","_","r","e","c","o","m","m","e","n","d","a","t","i","o","n","_","i","d">>,
       <<"g","e","t","_","m","e","s","s","a","g","e","_","s","e","n","d","e","r">>,
       <<"i","t","h","e","n","t","i","c","a","t","e","_","c","r","e","a","t","e","_","a","n","d","_","u","p","l","o","a","d","_","s","u","b","m","i","s","s","i","o","n">>,
       <<"i","t","h","e","n","t","i","c","a","t","e","_","r","e","q","u","e","s","t","_","s","i","m","i","l","a","r","i","t","y","_","r","e","p","o","r","t">>,
       <<"p","o","l","l","_","i","t","h","e","n","t","i","c","a","t","e","_","f","o","r","_","s","t","a","t","u","s">> >>

ShippedGroupBuilderMethods ==
    << <<"_","_","i","n","i","t","_","_">>,
       <<"c","r","e","a","t","e","_","v","e","n","u","e","_","g","r","o","u","p">>,
       <<"b","u","i","l","d","_","g","r","o","u","p","s">>,
       <<"p","o","s","t","_","g","r","o","u","p">>,
       <<"g","e","t","_","u","p","d","a","t","e","_","c","o","n","t","e","n","t">>,
       <<"u","p","d","a","t","e","_","w","e","b","_","f","i","e","l","d">>,
       <<"c","r","e","a","t","e","_","p","r","o","g","r","a","m","_","c","h","a","i","r","s","_","g","r","o","u","p">>,
       <<"c","r","e","a","t","e","_","a","u","t","h","o","r","s","_","g","r","o","u","p">>,
       <<"c","r","e","a","t","e","_","r","e","v","i","e","w","e","r","s","_","g","r","o","u","p">>,
       <<"c","r","e","a","t","e","_","a","r","e","a","_","c","h","a","i","r","s","_","g","r","o","u","p">>,
       <<"c","r","e","a","t","e","_","s","e","n","i","o","r","_","a","r","e","a","_","c","h","a","i","r","s","_","g","r","o","u","p">>,
       <<"c","r","e","a","t","e","_","e","t","h","i","c","s","_","r","e","v","i","e","w","e","r","s","_","g","r","o","u","p">>,
       <<"c","r","e","a","t","e","_","e","t","h","i","c","s","_","c","h","a","i","r","s","_","g","r","o","u","p">>,
       <<"c","r","e","a","t","e","_","p","u","b","l","i","c","a","t","i","o","n","_","c","h","a","i","r","s","_","g","r","o","u","p">>,
       <<"c","r","e","a","t","e","_","p","r","e","f","e","r","r","e","d","_","e","m","a","i","l","s","_","r","e","a","d","e","r","s","_","g","r","o","u","p">>,
       <<"a","d","d","_","t","o","_","a","c","t","i","v","e","_","v","e","n","u","e","s">>,
       <<"c","r","e","a","t","e","_","r","e","c","r","u","i","t","m","e","n","t","_","c","o","m","m","i","t","t","e","e","_","g","r","o","u","p","s">>,
       <<"s","e","t","_","e","x","t","e","r","n","a","l","_","r","e","v","i","e","w","e","r","_","r","e","c","r","u","i","t","m","e","n","t","_","g","r","o","u","p","s">>,
       <<"g","e","t","_","r","e","v","i","e","w","e","r","_","i","d","e","n","t","i","t","y","_","r","e","a","d","e","r","s">>,
       <<"g","e","t","_","a","r","e","a","_","c","h","a","i","r","_","i","d","e","n","t","i","t","y","_","r","e","a","d","e","r","s">>,
       <<"g","e","t","_","s","e","n","i","o","r","_","a","r","e","a","_","c","h","a","i","r","_","i","d","e","n","t","i","t","y","_","r","e","a","d","e","r","s">>,
       <<"g","e","t","_","r","e","v","i","e","w","e","r","_","p","a","p","e","r","_","g","r","o","u","p","_","r","e","a","d","e","r","s">>,
       <<"g","e","t","_","r","e","v","i","e","w","e","r","_","p","a","p","e","r","_","g","r","o","u","p","_","w","r","i","t","e","r","s">>,
       <<"g","e","t","_","a","r","e","a","_","c","h","a","i","r","_","p","a","p","e","r","_","g","r","o","u","p","_","r","e","a","d","e","r","s">>,
       <<"s","e","t","_","i","m","p","e","r","s","o","n","a","t","o","r","s">> >>

\* variant: the last method of a class is listed twice
ShippedMethods_Repeated(names) ==
    LET listed == names \o <<names[Len(names)]>>
    IN [i \in 1..Len(listed) |->
           [name |-> listed[i], signature |-> listed[i], docstring |-> listed[i]]]

ShippedMethods(names) ==
    [i \in 1..Len(names) |->
        [name |-> names[i], signature |-> names[i], docstring |-> names[i]]]

ShippedClass(n, m, names) ==
    [name |-> n, docstring |-> n, module |-> m, methods |-> ShippedMethods(names)]

ShippedClasses ==
    << ShippedClass(Client, ModOpenreview, ShippedClientMethods),
       ShippedClass(OpenReviewClient, ModApi, ShippedOpenReviewClientMethods),
       ShippedClass(<<"I","n","v","i","t","a","t","i","o","n">>, ModApi, ShippedInvitationMethods),
       ShippedClass(<<"N","o","t","e">>, ModApi, ShippedNoteMethods),
       ShippedClass(<<"G","r","o","u","p">>, ModApi, ShippedGroupMethods),
       ShippedClass(<<"E","d","g","e">>, ModApi, ShippedEdgeMethods),
       ShippedClass(<<"T","a","g">>, ModApi, ShippedTagMethods),
       ShippedClass(<<"E","d","i","t">>, ModApi, ShippedEditMethods),
       ShippedClass(<<"P","r","o","f","i","l","e">>, ModApi, ShippedProfileMethods),
       ShippedClass(Venue, ModVenue, ShippedVenueMethods),
       ShippedClass(GroupBuilder, ModVenue, ShippedGroupBuilderMethods) >>

ShippedTool(n) ==
    [name |-> n, docstring |-> n, module |-> ModTools, signature |-> n,
     function_type |-> "function", parameters |-> <<>>]

ShippedTools ==
    << ShippedTool(<<"g","e","t","_","p","r","o","f","i","l","e","s">>),
       ShippedTool(<<"g","e","t","_","o","w","n","_","r","e","v","i","e","w","s">>) >>

\* the names a caller may look up: every method, class and tool name of the
\* shipped catalog
ShippedNames ==
    UNION { {ShippedClasses[i].methods[k].name : k \in 1..Len(ShippedClasses[i].methods)} :
            i \in 1..Len(ShippedClasses) }
    \cup {ShippedClasses[i].name : i \in 1..Len(ShippedClasses)}
    \cup {ShippedTools[i].name : i \in 1..Len(ShippedTools)}

ShippedInit ==
    /\ classes = ShippedClasses
    /\ tools = ShippedTools
    /\ op = "idle"
    /\ arg = None
    /\ result = [kind |-> "none"]
    /\ calls = <<>>
    /\ tasks = [t \in TaskIds |-> IdleTask]

ShippedDetailsCall ==
    \E function_name \in ShippedNames :
        Finish("get_function_details", PyStr(function_name),
               get_function_details(PyStr(function_name)))

ShippedNext ==
    \/ ShippedDetailsCall
    \/ OverviewCall
    \/ Reply

ShippedSpec == ShippedInit /\ [][ShippedNext]_vars

----------------------------------------------------------------------------
(* Vocabulary of the properties *)

\* the view search runs over: derived functions first, then tools
SearchedView == get_openreview_functions \o get_openreview_tools

\* q is a substring of the lowercased name or the lowercased docstring of rec
SubstringCondition(q, rec) ==
    \/ Contains(q, lower(rec.name))
    \/ Contains(q, lower(Get(rec, "docstring", <<>>)))

\* res is sound and complete for q over the searched view
SoundAndComplete(res, q) ==
    /\ \A i \in 1..Len(res) :
          /\ SubstringCondition(q, res[i])
          /\ \E j \in 1..Len(SearchedView) : SearchedView[j] = res[i]
    /\ \A j \in 1..Len(SearchedView) :
          SubstringCondition(q, SearchedView[j])
              => \E i \in 1..Len(res) : res[i] = SearchedView[j]

RepositoryCalls ==
    {"get_openreview_functions", "get_openreview_classes", "get_openreview_tools",
     "search_openreview_functions", "get_library_overview"}

NoLookup == \A i \in 1..Len(calls) : calls[i] \notin RepositoryCalls

Searched == op = "search_openreview_api"
Detailed == op = "get_function_details"
Listed == op = "list_openreview_functions"

DerivedNames == {get_openreview_functions[i].name : i \in 1..Len(get_openreview_functions)}

NotFound(n) == Returned([error |-> Msg("Function '{}' not found", <<n>>)])

\* the class get_openreview_functions projects: the first one named
\* OpenReviewClient
HasPrimary == \E i \in 1..Len(classes) : classes[i].name = OpenReviewClient

PrimaryIndex ==
    CHOOSE i \in 1..Len(classes) :
        /\ classes[i].name = OpenReviewClient
        /\ \A j \in 1..(i - 1) : classes[j].name # OpenReviewClient

PrimaryMethods == Get(classes[PrimaryIndex], "methods", <<>>)

PublicMethods == SelectSeq(PrimaryMethods, LAMBDA m : m.name[1] # "_")

----------------------------------------------------------------------------
(* C1 *)

\* C1 as stated: for every query string q the results of search(q) are sound
\* and complete with respect to q.lower(), also for queries with leading or
\* trailing whitespace.
C1_SearchSoundCompleteUntrimmed ==
    (Searched /\ isinstance_str(arg))
        => /\ result.kind = "return"
           /\ SoundAndComplete(result.value.results, lower(arg.val))

\* C1 amended: for every query string q whose trimmed form is non-empty the
\* results of search(q) are sound and complete with respect to
\* q.strip().lower(): every returned record has it as a substring of its
\* lowercased name or docstring, and every record of the searched view with
\* that property is returned.  A query that is empty after trimming returns
\* no record.
C1_SearchSoundCompleteTrimmed ==
    (Searched /\ isinstance_str(arg))
        => /\ result.kind = "return"
           /\ strip(arg.val) # <<>>
                 => SoundAndComplete(result.value.results, lower(strip(arg.val)))
           /\ strip(arg.val) = <<>> => result.value.results = <<>>

C1_Witness ==
    /\ Searched /\ isinstance_str(arg)
    /\ strip(arg.val) # <<>> /\ strip(arg.val) # arg.val
    /\ lower(arg.val) # arg.val
    /\ result.kind = "return"
    /\ result.value.results # <<>>
    /\ Len(result.value.results) < Len(SearchedView)
    /\ \E i \in 1..Len(result.value.results) :
          ~Contains(lower(strip(arg.val)), lower(result.value.results[i].name))

----------------------------------------------------------------------------
(* C2 *)

\* C2: for every name n carried by a record of the derived-functions view,
\* function_details(n) returns a record, not an error value, whose name is n.
C2_DetailsOfPresentName ==
    (Detailed /\ isinstance_str(arg) /\ arg.val \in DerivedNames)
        => /\ result.kind = "return"
           /\ "error" \notin DOMAIN result.value
           /\ "name" \in DOMAIN result.value
           /\ result.value.name = arg.val

C2_Witness ==
    /\ Detailed /\ isinstance_str(arg) /\ arg.val \in DerivedNames
    /\ result.kind = "return"
    /\ result.value.name = arg.val
    /\ get_openreview_functions[1].name # arg.val

----------------------------------------------------------------------------
(* C3 *)

\* C3: for every non-empty string n that names no record of the
\* derived-functions view, function_details(n) returns (does not raise) the
\* not-found value, whose message names n.
C3_DetailsOfAbsentName ==
    (Detailed /\ isinstance_str(arg) /\ arg.val # <<>> /\ arg.val \notin DerivedNames)
        => result = NotFound(arg.val)

C3_Witness ==
    /\ Detailed /\ isinstance_str(arg) /\ arg.val # <<>>
    /\ arg.val \notin DerivedNames
    /\ lower(arg.val) \in {lower(n) : n \in DerivedNames}
    /\ result = NotFound(arg.val)

----------------------------------------------------------------------------
(* C4 *)

----------------------------------------------------------------------------
(* C5 *)

\* C5: search and function_details called with a non-string argument raise an
\* error whose message names the parameter (query / function_name), the
\* expected type (string) and the actual type; no repository lookup is made
\* and nothing is returned.
C5_NonStringRejected ==
    /\ (Searched /\ arg.type # "str")
          => /\ result = Raised("TypeError",
                                Msg("Expected query to be a string, got {}", <<arg.type>>))
             /\ NoLookup
    /\ (Detailed /\ arg.type # "str")
          => /\ result = Raised("TypeError",
                                Msg("Expected function_name to be a string, got {}",
                                    <<arg.type>>))
             /\ NoLookup

C5_Witness ==
    /\ Searched
    /\ arg = None
    /\ result.kind = "raise"
    /\ SearchedView # <<>>

----------------------------------------------------------------------------
(* C6 *)

\* C6: search with an empty or whitespace-only query returns a success result
\* with count 0 and an empty results list and raises nothing, whatever the
\* catalog holds.
C6_BlankQueryEmptyResult ==
    (Searched /\ isinstance_str(arg) /\ \A i \in 1..Len(arg.val) : arg.val[i] = " ")
        => /\ result.kind = "return"
           /\ result.value.status = "success"
           /\ result.value.count = 0
           /\ result.value.results = <<>>

C6_Witness ==
    /\ Searched /\ isinstance_str(arg)
    /\ arg.val # <<>> /\ \A i \in 1..Len(arg.val) : arg.val[i] = " "
    /\ result.kind = "return" /\ result.value.count = 0
    /\ \E j \in 1..Len(SearchedView) :
          Contains(arg.val, Get(SearchedView[j], "docstring", <<>>))

----------------------------------------------------------------------------
(* C7 *)

\* C7: get_derived_functions() holds one record for exactly the methods of
\* the primary client class (the first class named OpenReviewClient) whose
\* name does not begin with "_", __init__ thereby excluded, in the order of
\* the class's method sequence, and no record from any other class.
C7_DerivedAreThePublicMethods ==
    HasPrimary
        => /\ Len(get_openreview_functions) = Len(PublicMethods)
           /\ \A i \in 1..Len(PublicMethods) :
                 /\ get_openreview_functions[i].name = PublicMethods[i].name
                 /\ get_openreview_functions[i].signature = PublicMethods[i].signature
           /\ \A i \in 1..Len(get_openreview_functions) :
                 /\ get_openreview_functions[i].name[1] # "_"
                 /\ get_openreview_functions[i].name # Dunder_init

C7_Witness ==
    /\ op = "get_openreview_overview"
    /\ HasPrimary
    /\ result.value.functions = get_openreview_functions
    /\ Len(result.value.functions) >= 2
    /\ Len(PublicMethods) < Len(PrimaryMethods)
    /\ \E i \in 1..Len(PrimaryMethods) :
          PrimaryMethods[i].name[1] = "_" /\ PrimaryMethods[i].name # Dunder_init
    /\ \E c \in 1..Len(classes) :
          /\ c # PrimaryIndex
          /\ Get(classes[c], "methods", <<>>) # <<>>

----------------------------------------------------------------------------
(* C8 *)

\* C8: every record of get_derived_functions() copies name and signature of
\* its source method, copies the docstring or has the empty string when the
\* method has none, has module "<class module>.<class name>" of the primary
\* class and function_type "method"; all derived records carry one module.
C8_DerivedRecordFields ==
    HasPrimary
        => /\ Len(get_openreview_functions) = Len(PublicMethods)
           /\ \A i \in 1..Len(get_openreview_functions) :
                 LET f == get_openreview_functions[i]
                     m == PublicMethods[i]
                 IN /\ DOMAIN f = {"name", "docstring", "module", "signature",
                                   "function_type"}
                    /\ f.name = m.name
                    /\ f.signature = m.signature
                    /\ f.docstring = (IF "docstring" \in DOMAIN m
                                      THEN m.docstring ELSE <<>>)
                    /\ f.module = classes[PrimaryIndex].module \o <<".">>
                                      \o classes[PrimaryIndex].name
                    /\ f.function_type = "method"
                    /\ f.module = get_openreview_functions[1].module

C8_Witness ==
    /\ Listed /\ arg = None
    /\ HasPrimary
    /\ result.value.functions = get_openreview_functions
    /\ Len(result.value.functions) >= 2
    /\ \E i \in 1..Len(PublicMethods) : "docstring" \notin DOMAIN PublicMethods[i]
    /\ \E i \in 1..Len(PublicMethods) : "docstring" \in DOMAIN PublicMethods[i]

----------------------------------------------------------------------------
(* C9 *)

\* C9: when no class of the catalog is named OpenReviewClient,
\* get_derived_functions() is the empty sequence and every operation built
\* on it still completes: list_functions and overview return no functions,
\* search returns, and function_details returns not-found for every name
\* (a non-empty string).
C9_NoPrimaryClassDegrades ==
    (\A i \in 1..Len(classes) : classes[i].name # OpenReviewClient)
        => /\ get_openreview_functions = <<>>
           /\ (Listed
                  => /\ result.kind = "return"
                     /\ result.value.functions = <<>>
                     /\ result.value.count = 0)
           /\ (op = "get_openreview_overview"
                  => /\ result.kind = "return"
                     /\ result.value.functions = <<>>
                     /\ result.value.statistics.total_functions = 0)
           /\ ((Searched /\ isinstance_str(arg))
                  => /\ result.kind = "return"
                     /\ \A i \in 1..Len(result.value.results) :
                           \E j \in 1..Len(tools) : tools[j] = result.value.results[i])
           /\ ((Detailed /\ isinstance_str(arg))
                  => /\ result.kind = "return"
                     /\ arg.val # <<>> => result = NotFound(arg.val))

C9_Witness ==
    /\ classes # <<>>
    /\ \A i \in 1..Len(classes) : classes[i].name # OpenReviewClient
    /\ \E i \in 1..Len(classes) :
          \E k \in 1..Len(Get(classes[i], "methods", <<>>)) :
              /\ Detailed /\ isinstance_str(arg)
              /\ classes[i].methods[k].name = arg.val
              /\ result = NotFound(arg.val)

----------------------------------------------------------------------------
(* C10 *)

\* C10 as stated: with a module filter string f supplied, list_functions
\* returns exactly the derived records whose module equals f as a whole
\* string, in the order of the derived view; with no filter it returns the
\* whole derived view.
C10_FilterAnyString ==
    Listed
        => /\ result.kind = "return"
           /\ arg.type = "str"
                 => result.value.functions
                       = SelectSeq(get_openreview_functions, LAMBDA f : f.module = arg.val)
           /\ arg = None => result.value.functions = get_openreview_functions

\* C10 amended: with a non-empty module filter string f supplied,
\* list_functions returns exactly the derived records whose module equals f
\* as a whole string (no prefix, substring or glob match), in the order of
\* the derived view; with no filter, or with the empty string as filter, it
\* returns the whole derived view.
C10_FilterNonEmptyString ==
    Listed
        => /\ result.kind = "return"
           /\ (arg.type = "str" /\ arg.val # <<>>)
                 => result.value.functions
                       = SelectSeq(get_openreview_functions, LAMBDA f : f.module = arg.val)
           /\ (arg = None \/ arg = PyStr(<<>>))
                 => result.value.functions = get_openreview_functions

C10_Witness ==
    /\ Listed /\ arg.type = "str" /\ arg.val # <<>>
    /\ get_openreview_functions # <<>>
    /\ result.value.functions = <<>>
    /\ startswith(get_openreview_functions[1].module, arg.val)

C10_WitnessMatch ==
    /\ Listed /\ arg.type = "str" /\ arg.val # <<>>
    /\ result.value.functions # <<>>

----------------------------------------------------------------------------
(* C11 *)

ListedClasses == op = "list_openreview_classes"
Overviewed == op = "get_openreview_overview"

NamesOf(recs) == [i \in 1..Len(recs) |-> recs[i].name]

\* the public methods of the first class named n
PublicMethodsOf(n) ==
    LET k == CHOOSE i \in 1..Len(classes) :
                 /\ classes[i].name = n
                 /\ \A j \in 1..(i - 1) : classes[j].name # n
    IN SelectSeq(Get(classes[k], "methods", <<>>), LAMBDA m : m.name[1] # "_")

\* C11: as the tool's documentation states, list_openreview_functions with
\* filter_by_module = "openreview.api" returns the API 2 methods (those of
\* OpenReviewClient, a class of module openreview.api) and with
\* filter_by_module = "openreview" the API 1 methods (those of Client, a
\* class of module openreview).
C11_DocumentedModuleFilters ==
    Listed
        => /\ (/\ arg = PyStr(ModApi)
               /\ HasPrimary
               /\ classes[PrimaryIndex].module = ModApi)
                 => NamesOf(result.value.functions) = NamesOf(PublicMethods)
           /\ (/\ arg = PyStr(ModOpenreview)
               /\ \E i \in 1..Len(classes) :
                     classes[i].name = Client /\ classes[i].module = ModOpenreview)
                 => NamesOf(result.value.functions) = NamesOf(PublicMethodsOf(Client))

----------------------------------------------------------------------------
(* C12 *)

\* C12: list_classes(include_methods=False) returns class records none of
\* which carries a non-empty methods field; list_classes(include_methods=True)
\* returns, for every class and in catalog order, exactly the method sequence
\* get_classes() returns for it.
C12_MethodsToggle ==
    ListedClasses
        => /\ result.kind = "return"
           /\ Len(result.value.classes) = Len(classes)
           /\ arg = PyBool(FALSE)
                 => \A i \in 1..Len(classes) :
                       \/ "methods" \notin DOMAIN result.value.classes[i]
                       \/ result.value.classes[i].methods = <<>>
           /\ arg = PyBool(TRUE)
                 => \A i \in 1..Len(classes) :
                       /\ result.value.classes[i].name = classes[i].name
                       /\ ("methods" \in DOMAIN result.value.classes[i])
                             = ("methods" \in DOMAIN classes[i])
                       /\ "methods" \in DOMAIN classes[i]
                             => result.value.classes[i].methods = classes[i].methods

C12_Witness ==
    /\ ListedClasses /\ arg = PyBool(FALSE)
    /\ Len(classes) >= 2
    /\ \A i \in 1..Len(classes) : Get(classes[i], "methods", <<>>) # <<>>
    /\ \A i \in 1..Len(classes) : "methods" \notin DOMAIN result.value.classes[i]

----------------------------------------------------------------------------
(* C13 *)

\* C13: in every overview() result the statistics total_functions,
\* total_classes, total_tools and total_modules equal the lengths of the
\* functions, classes, tools and modules lists of that same result.
C13_OverviewCountsAgree ==
    Overviewed
        => /\ result.kind = "return"
           /\ result.value.statistics.total_functions = Len(result.value.functions)
           /\ result.value.statistics.total_classes = Len(result.value.classes)
           /\ result.value.statistics.total_tools = Len(result.value.tools)
           /\ result.value.statistics.total_modules = Len(result.value.modules)

C13_Witness ==
    /\ Overviewed
    /\ result.value.tools # <<>>
    /\ Len(result.value.functions) > Len(result.value.classes)
    /\ Len(result.value.classes) > Len(result.value.tools)
    /\ result.value.statistics.total_functions = Len(result.value.functions)

----------------------------------------------------------------------------
(* C17 *)

\* names of the tools, and of the methods of every class but the primary one
ToolNames == {tools[i].name : i \in 1..Len(tools)}

OtherMethodNames ==
    UNION { {Get(classes[c], "methods", <<>>)[k].name :
                k \in 1..Len(Get(classes[c], "methods", <<>>))} :
            c \in {i \in 1..Len(classes) : ~HasPrimary \/ i # PrimaryIndex} }

PublicNames == IF HasPrimary THEN {PublicMethods[i].name : i \in 1..Len(PublicMethods)}
               ELSE {}

\* C17: function_details looks up the derived-functions view only, by
\* case-sensitive whole-string equality, and returns the first matching
\* record; a name that differs from a derived name only in letter case, or
\* that names only a tool or only a method of a non-primary class, yields the
\* not-found result.
C17_LookupDerivedOnlyCaseSensitiveFirst ==
    (Detailed /\ isinstance_str(arg) /\ arg.val # <<>>)
        => /\ arg.val \in PublicNames
                 => LET first == CHOOSE i \in 1..Len(PublicMethods) :
                                     /\ PublicMethods[i].name = arg.val
                                     /\ \A j \in 1..(i - 1) : PublicMethods[j].name # arg.val
                    IN /\ result.kind = "return"
                       /\ "error" \notin DOMAIN result.value
                       /\ result.value.signature = PublicMethods[first].signature
           /\ (arg.val \notin PublicNames /\ lower(arg.val) \in {lower(n) : n \in PublicNames})
                 => result = NotFound(arg.val)
           /\ (arg.val \notin PublicNames /\ arg.val \in ToolNames)
                 => result = NotFound(arg.val)
           /\ (arg.val \notin PublicNames /\ arg.val \in OtherMethodNames)
                 => result = NotFound(arg.val)

C17_Witness ==
    /\ Detailed /\ isinstance_str(arg)
    /\ HasPrimary /\ PublicMethods # <<>>
    /\ arg.val \in ToolNames
    /\ arg.val \notin PublicNames
    /\ result = NotFound(arg.val)
    /\ \E j \in 1..Len(search_openreview_functions(arg.val)) :
          search_openreview_functions(arg.val)[j].name = arg.val

----------------------------------------------------------------------------
(* C18 *)

RECURSIVE IsSubsequence(_, _)
IsSubsequence(a, b) ==
    IF a = <<>> THEN TRUE
    ELSE IF b = <<>> THEN FALSE
    ELSE IF Head(a) = Head(b) THEN IsSubsequence(Tail(a), Tail(b))
    ELSE IsSubsequence(a, Tail(b))

----------------------------------------------------------------------------
(* C19 *)

\* C19: for every name present in the derived-functions view the
\* function_details result carries name, docstring, module, signature and
\* function_type with the values of the derived record, parameters, examples
\* and related_functions each the empty list, and return_type.
C19_DetailsFields ==
    (Detailed /\ isinstance_str(arg) /\ arg.val \in DerivedNames)
        => LET rec == get_openreview_functions[
                         CHOOSE i \in 1..Len(get_openreview_functions) :
                             /\ get_openreview_functions[i].name = arg.val
                             /\ \A j \in 1..(i - 1) :
                                   get_openreview_functions[j].name # arg.val]
           IN /\ result.kind = "return"
              /\ DOMAIN result.value =
                    {"name", "docstring", "module", "signature", "function_type",
                     "parameters", "examples", "related_functions", "return_type"}
              /\ \A k \in {"name", "docstring", "module", "signature", "function_type"} :
                    result.value[k] = rec[k]
              /\ result.value.parameters = <<>>
              /\ result.value.examples = <<>>
              /\ result.value.related_functions = <<>>

C19_Witness ==
    /\ Detailed /\ isinstance_str(arg) /\ arg.val \in DerivedNames
    /\ result.kind = "return"
    /\ result.value.related_functions = <<>>
    /\ result.value.docstring # <<>>
    /\ result.value.return_type = "unknown"

----------------------------------------------------------------------------
(* C20 *)

UtilityListed == op = "get_utility_tools"

\* C20: in every successful response of list_functions, list_classes, search
\* and get_tools, status is "success" and count is the length of the list
\* returned in the same response (functions, classes, results, tools).
C20_CountIsListLength ==
    /\ (Listed /\ result.kind = "return")
          => /\ result.value.status = "success"
             /\ result.value.count = Len(result.value.functions)
    /\ (ListedClasses /\ result.kind = "return")
          => /\ result.value.status = "success"
             /\ result.value.count = Len(result.value.classes)
    /\ (Searched /\ result.kind = "return")
          => /\ result.value.status = "success"
             /\ result.value.count = Len(result.value.results)
    /\ (UtilityListed /\ result.kind = "return")
          => /\ result.value.status = "success"
             /\ result.value.count = Len(result.value.tools)

C20_Witness ==
    /\ UtilityListed /\ result.kind = "return"
    /\ result.value.count = 1
    /\ Len(get_openreview_functions) >= 2

----------------------------------------------------------------------------
(* C14 *)

----------------------------------------------------------------------------
(* C15 *)

\* an outcome without its timestamp
StripTime(r) ==
    IF HasTimestamp(r)
    THEN [r EXCEPT !.value.metadata =
             [k \in (DOMAIN r.value.metadata) \ {"timestamp"} |-> r.value.metadata[k]]]
    ELSE r

Done(t) == tasks[t].pc = "done"

----------------------------------------------------------------------------
(* C16 *)

----------------------------------------------------------------------------
(* C21 *)

\* C21: the functions, classes and tools lists of an overview() result are
\* equal, element for element and in order, to what get_derived_functions(),
\* get_classes() and get_tools() return, and modules is the fixed list of the
\* four known module paths.
C21_OverviewListsAreTheViews ==
    Overviewed
        => /\ result.kind = "return"
           /\ Len(result.value.functions) = (IF HasPrimary THEN Len(PublicMethods) ELSE 0)
           /\ \A i \in 1..Len(result.value.functions) :
                 /\ result.value.functions[i].name = PublicMethods[i].name
                 /\ result.value.functions[i] = get_openreview_functions[i]
           /\ result.value.classes = get_openreview_classes
           /\ result.value.tools = get_openreview_tools
           /\ result.value.modules
                 = <<OPENREVIEW,
                     OPENREVIEW \o <<".","a","p","i">>,
                     OPENREVIEW \o <<".","t","o","o","l","s">>,
                     OPENREVIEW \o <<".","v","e","n","u","e">>>>

C21_Witness ==
    /\ Overviewed
    /\ Len(result.value.functions) >= 2
    /\ Len(result.value.classes) = 2
    /\ result.value.classes[1].name # result.value.classes[2].name
    /\ result.value.tools # <<>>
    /\ result.value.functions[1] # result.value.functions[2]
    /\ result.value.functions = get_openreview_functions


----------------------------------------------------------------------------
(* C22 *)

\* the keys of the value each tool builds on its success path
SuccessKeys(name) ==
    CASE name = "search_openreview_api" -> {"status", "count", "results", "metadata"}
      [] name = "list_openreview_functions" -> {"status", "count", "functions", "metadata"}
      [] name = "list_openreview_classes" -> {"status", "count", "classes", "metadata"}
      [] name = "get_utility_tools" -> {"status", "count", "tools", "metadata"}
      [] name = "get_openreview_overview" ->
            {"functions", "classes", "tools", "modules", "statistics",
             "api_versions", "version", "last_updated"}
      [] name = "get_function_details" ->
            {"name", "docstring", "module", "signature", "function_type",
             "parameters", "return_type", "examples", "related_functions"}

\* the list a counted response counts
CountedList(v) ==
    IF "results" \in DOMAIN v THEN v.results
    ELSE IF "functions" \in DOMAIN v THEN v.functions
    ELSE IF "classes" \in DOMAIN v THEN v.classes
    ELSE v.tools

\* a returned value with every key of its shape, whose count is the length
\* of its list; for function_details also the {error} value
CompleteResult(name, r) ==
    /\ r.kind = "return"
    /\ \/ /\ DOMAIN r.value = SuccessKeys(name)
          /\ "count" \in DOMAIN r.value => r.value.count = Len(CountedList(r.value))
       \/ /\ name = "get_function_details"
          /\ DOMAIN r.value = {"error"}

RaisedFailure(r) == r.kind = "raise" /\ DOMAIN r = {"kind", "exc", "msg"}

----------------------------------------------------------------------------
(* C23 *)

\* s is q without its surrounding whitespace: s neither starts nor ends with
\* whitespace and q is s between two runs of whitespace
IsTrimOf(s, q) ==
    /\ s # <<>>
    /\ ~IsSpace(s[1]) /\ ~IsSpace(s[Len(s)])
    /\ \E i \in 0..Len(q) :
          /\ i + Len(s) <= Len(q)
          /\ SubSeq(q, i + 1, i + Len(s)) = s
          /\ \A k \in 1..Len(q) : (k <= i \/ k > i + Len(s)) => IsSpace(q[k])

\* C23: search is invariant under surrounding whitespace of the query: for
\* every query q whose trimmed form is non-empty, the results and count of
\* search(q) equal those of search(trim(q)), while metadata.query echoes q
\* as given, untrimmed.
C23_SearchIgnoresSurroundingWhitespace ==
    (Searched /\ isinstance_str(arg))
        => \A s \in Strings :
              IsTrimOf(s, arg.val)
                 => LET trimmed == search_openreview_api(PyStr(s), 1).result
                    IN /\ result.kind = "return" /\ trimmed.kind = "return"
                       /\ result.value.results = trimmed.value.results
                       /\ result.value.count = trimmed.value.count
                       /\ result.value.metadata.query = arg.val
                       /\ trimmed.value.metadata.query = s

C23_Witness ==
    /\ Searched /\ isinstance_str(arg)
    /\ \E s \in Strings : IsTrimOf(s, arg.val) /\ s # arg.val
    /\ IsSpace(arg.val[Len(arg.val)])
    /\ result.value.count >= 1
    /\ result.value.count < Len(SearchedView)
    /\ result.value.metadata.query = arg.val


----------------------------------------------------------------------------
(* C24 *)

\* C24: list_functions treats an empty-string module filter the same as an
\* absent filter: it returns the whole derived-functions view rather than the
\* (empty) set of records whose module equals ''.  With any non-empty filter
\* the result is either the whole view or empty, because all derived records
\* share one module value.
C24_EmptyFilterIsNoFilter ==
    Listed
        => /\ result.kind = "return"
           /\ arg \in {None, PyStr(<<>>)}
                 => /\ result.value.functions = get_openreview_functions
                    /\ result.value.count = (IF HasPrimary THEN Len(PublicMethods) ELSE 0)
           /\ (arg.type = "str" /\ arg.val # <<>>)
                 => \/ result.value.functions = get_openreview_functions
                    \/ result.value.functions = <<>>
           /\ \A i, j \in 1..Len(get_openreview_functions) :
                 get_openreview_functions[i].module = get_openreview_functions[j].module

C24_Witness ==
    /\ Listed /\ arg = PyStr(<<>>)
    /\ result.value.count >= 2
    /\ result.value.functions = get_openreview_functions
    /\ SelectSeq(get_openreview_functions, LAMBDA f : f.module = <<>>) = <<>>


----------------------------------------------------------------------------
(* C25 *)

\* the positions of seq that hold a record satisfying P
Positions(seq, P(_)) == {i \in 1..Len(seq) : P(seq[i])}

\* C25: search returns each record of the concatenated view at most once,
\* also when the query matches both its name and its docstring, so count
\* never exceeds the number of derived functions plus the number of tools;
\* records are not de-duplicated by name, so a name carried by both a derived
\* function and a tool yields two results.
C25_EachRecordOnceNoDedup ==
    (Searched /\ isinstance_str(arg) /\ strip(arg.val) # <<>>)
        => LET q == lower(strip(arg.val))
               res == result.value.results
           IN /\ result.kind = "return"
              /\ result.value.count <= Len(get_openreview_functions) + Len(get_openreview_tools)
              /\ \A i \in 1..Len(res) :
                    Cardinality(Positions(res, LAMBDA r : r = res[i]))
                       <= Cardinality(Positions(SearchedView, LAMBDA r : r = res[i]))
              /\ \A i \in 1..Len(SearchedView) :
                    LET n == SearchedView[i].name
                    IN Cardinality(Positions(res, LAMBDA r : r.name = n))
                          = Cardinality(Positions(SearchedView,
                               LAMBDA r : r.name = n /\ SubstringCondition(q, r)))

C25_Witness ==
    /\ Searched /\ isinstance_str(arg) /\ strip(arg.val) # <<>>
    /\ \E i, j \in 1..Len(result.value.results) :
          /\ i < j
          /\ result.value.results[i].name = result.value.results[j].name
          /\ result.value.results[i].function_type = "method"
          /\ result.value.results[j].function_type = "function"
          /\ Contains(lower(strip(arg.val)), lower(result.value.results[i].name))
          /\ Contains(lower(strip(arg.val)), lower(result.value.results[i].docstring))
    /\ result.value.count < Len(SearchedView)


----------------------------------------------------------------------------
(* C26 *)

\* one element for every method of every class of cs
MethodSlots(cs) ==
    UNION { {<<i, k>> : k \in 1..(IF "methods" \in DOMAIN cs[i]
                                   THEN Len(cs[i].methods) ELSE 0)} :
            i \in 1..Len(cs) }

\* C26: in a list_classes response, metadata.method_count equals the sum of
\* the lengths of the method sequences of the returned classes when
\* include_methods is true and equals 0 when include_methods is false; in the
\* false case the methods key is absent from every returned class record, and
\* count is the same in both cases.
C26_MethodCount ==
    ListedClasses
        => /\ result.kind = "return"
           /\ result.value.count = Len(get_openreview_classes)
           /\ result.value.count = Len(result.value.classes)
           /\ arg = PyBool(TRUE)
                 => result.value.metadata.method_count
                       = Cardinality(MethodSlots(result.value.classes))
           /\ arg = PyBool(FALSE)
                 => /\ result.value.metadata.method_count = 0
                    /\ \A i \in 1..Len(result.value.classes) :
                          "methods" \notin DOMAIN result.value.classes[i]

C26_Witness ==
    /\ ListedClasses /\ arg = PyBool(FALSE)
    /\ result.value.count = 2
    /\ result.value.metadata.method_count = 0
    /\ Cardinality(MethodSlots(get_openreview_classes)) >= 3
    /\ \E i \in 1..Len(classes) : "methods" \notin DOMAIN classes[i]


----------------------------------------------------------------------------
(* C27 *)

\* r is what a class-documentation tool owes for the class name n: the
\* {error} value when no class of the catalog is named n, otherwise status
\* success with the first class named n, its module and its method count
ClassDetailsOf(n, r) ==
    /\ r.kind = "return"
    /\ (\A i \in 1..Len(classes) : classes[i].name # n)
          <=> DOMAIN r.value = {"error"}
    /\ \A i \in 1..Len(classes) :
          (/\ classes[i].name = n
           /\ \A j \in 1..(i - 1) : classes[j].name # n)
             => /\ "error" \notin DOMAIN r.value
                /\ r.value.status = "success"
                /\ r.value.class = classes[i]
                /\ r.value.metadata.module = classes[i].module
                /\ r.value.metadata.method_count
                      = (IF "methods" \in DOMAIN classes[i]
                         THEN Len(classes[i].methods) ELSE 0)

\* C27: get_venue_class_details and get_group_builder_details return an
\* {error} value exactly when the catalog has no class named Venue
\* (respectively GroupBuilder); otherwise they return status 'success' with
\* the first class of that name, and metadata.method_count equals the length
\* of that class's method sequence and metadata.module equals its module.
C27_ClassDetailsFirstOrError ==
    /\ op = "get_venue_class_details" => ClassDetailsOf(Venue, result)
    /\ op = "get_group_builder_details" => ClassDetailsOf(GroupBuilder, result)

C27_Witness ==
    /\ op = "get_group_builder_details"
    /\ Len(classes) = 2
    /\ classes[1].name = Venue
    /\ classes[2].name = GroupBuilder
    /\ result.value.status = "success"
    /\ result.value.class = classes[2]
    /\ result.value.metadata.method_count = 2


----------------------------------------------------------------------------
(* C28 *)

\* C28: in the shipped catalog class names are pairwise distinct and the
\* non-private method names of the primary client class are pairwise
\* distinct, so the primary class is determined uniquely and, for every name,
\* function_details' first match is the only match.
C28_ShippedNamesUnique ==
    /\ \A i, j \in 1..Len(classes) : classes[i].name = classes[j].name => i = j
    /\ Cardinality({i \in 1..Len(classes) : classes[i].name = OpenReviewClient}) = 1
    /\ \A i, j \in 1..Len(PublicMethods) :
          PublicMethods[i].name = PublicMethods[j].name => i = j
    /\ (Detailed /\ arg.val \in PublicNames)
          => /\ Cardinality({i \in 1..Len(get_openreview_functions) :
                                get_openreview_functions[i].name = arg.val}) = 1
             /\ result.kind = "return"
             /\ "error" \notin DOMAIN result.value
             /\ result.value.name = arg.val

C28_Witness ==
    /\ Detailed
    /\ Len(classes) = 11
    /\ Len(PublicMethods) = 87
    /\ arg.val = <<"g","e","t","_","p","r","o","f","i","l","e","s">>
    /\ arg.val \in ToolNames
    /\ result.kind = "return"
    /\ result.value.name = arg.val
    /\ result.value.function_type = "method"

----------------------------------------------------------------------------
(* C29 *)

Elements(seq) == {seq[i] : i \in 1..Len(seq)}

\* C29: the modules list of overview() covers the catalog: every module value
\* carried by a class descriptor or a tool descriptor is an element of
\* modules, and every element of modules is the module of at least one class
\* or tool; the module value of the derived functions
\* ('<class module>.<class name>') is not an element of modules.
C29_ModulesCoverCatalog ==
    Overviewed
        => LET v == result.value
               carried == {v.classes[i].module : i \in 1..Len(v.classes)}
                          \cup {v.tools[i].module : i \in 1..Len(v.tools)}
           IN /\ result.kind = "return"
              /\ carried \subseteq Elements(v.modules)
              /\ Elements(v.modules) \subseteq carried
              /\ \A i \in 1..Len(v.functions) :
                    /\ v.functions[i].module \notin Elements(v.modules)
                    /\ v.functions[i].module
                          = OPENREVIEW \o <<".","a","p","i",".">> \o OpenReviewClient

C29_Witness ==
    /\ Overviewed
    /\ Len(result.value.functions) = 87
    /\ Len(result.value.tools) = 2
    /\ Cardinality({result.value.classes[i].module :
                        i \in 1..Len(result.value.classes)}) = 3
    /\ Len(result.value.modules) = 4
    /\ result.value.functions[1].module \notin Elements(result.value.modules)

====
